---- MODULE Spec2Model ----
(***************************************************************************)
(* Model of reset_mashine_id.py: the MachineIDResetter orchestrator        *)
(* (reset_machine_ids) and the four store mutators it drives, together     *)
(* with the stores they read and write: storage.json, the state.vscdb      *)
(* ItemTable, the machineId marker file and the OS registry / plist.       *)
(*                                                                         *)
(* Files are records, JSON documents and table rows are functions from    *)
(* keys to strings (a Python dict), operator input is a sequence of        *)
(* one-character strings.  I/O errors are environment choices made when    *)
(* the failing call is reached; at most MaxFaults of them occur in a run.  *)
(***************************************************************************)
EXTENDS Integers, Sequences, FiniteSets, TLC

VARIABLES
    pc,               \* position in run() / reset_machine_ids()
    platform,         \* sys.platform
    faults,           \* number of I/O errors the environment has injected
    storage,          \* storage.json (self.db_path)
    sqlite,           \* state.vscdb (self.sqlite_path)
    marker,           \* the machineId file
    registry,         \* HKLM values (win32) / platform uuid plist (darwin)
    backups,          \* backup artifacts on disk: kind -> content
    procQuery,        \* what the process-list tools answered
    cursor_running,   \* local of reset_machine_ids
    continue_anyway,  \* local: answer to the running-process prompt
    new_ids,          \* local: the generated identifier set
    confirm,          \* local: answer to the confirm-reset prompt
    calls,            \* the mutators invoked so far, with what each returned
    written,          \* backends that received a destructive write
    log,              \* messages printed that the claims refer to
    result,           \* return value of reset_machine_ids
    pre,              \* the stores as they were when the run started
    config,           \* what get_config and the section lookup found
    now,              \* the clock, in the seconds datetime.now() is formatted to
    disk,             \* the backup files on disk: path -> content
    runs,             \* the number of runs started so far
    run_result        \* what run() returned, or the exception that left it

vars == <<pc, platform, faults, storage, sqlite, marker, registry, backups,
          procQuery, cursor_running, continue_anyway, new_ids, confirm,
          calls, written, log, result, pre, config, now, disk, runs,
          run_result>>

(***************************************************************************)
(* Bounds                                                                  *)
(***************************************************************************)
MaxFaults == 2
MaxInputLen == 2
MaxClock == 1
MaxRuns == 2

(***************************************************************************)
(* Data                                                                    *)
(***************************************************************************)
Platforms == {"win32", "darwin", "linux", "freebsd"}

IdKeys == {"telemetry.devDeviceId", "telemetry.macMachineId",
           "telemetry.machineId", "telemetry.sqmId",
           "storage.serviceMachineId"}

EmptyDict == [k \in {} |-> ""]

\* dict.get(key, default)
Get(d, k, default) == IF k \in DOMAIN d THEN d[k] ELSE default

\* d.update(u): the keys of u take u's values, the other keys of d stay
Update(d, u) == [k \in DOMAIN d \cup DOMAIN u |->
                    IF k \in DOMAIN u THEN u[k] ELSE d[k]]

\* str.lower() on the characters operator input is drawn from
LowerChar(c) == CASE c = "Y" -> "y"
                  [] c = "N" -> "n"
                  [] OTHER -> c

Lower(s) == [i \in DOMAIN s |-> LowerChar(s[i])]

InputAlphabet == {"y", "Y", "n"}

Inputs == UNION {[1..n -> InputAlphabet] : n \in 0..MaxInputLen}

NoInput == <<"(not asked)">>

\* What the process-list tools answer.  imported: `import subprocess` worked;
\* first: tasklist (win32) or pgrep; second: wmic, consulted on win32 only
\* and only after tasklist failed.
NotQueried == [imported |-> TRUE, first |-> "(not asked)", second |-> "unused"]

ProcQueries(p) ==
    { [imported |-> FALSE, first |-> "unused", second |-> "unused"] }
    \cup { [imported |-> TRUE, first |-> f, second |-> "unused"] :
              f \in {"found", "none"} }
    \cup { [imported |-> TRUE, first |-> f, second |-> s] :
              f \in {"timeout", "missing"},
              s \in IF p = "win32" THEN {"found", "none", "failed"} ELSE {"unused"} }

QueryWorked(q) == q.imported /\ q.first \in {"found", "none"}

\* uuid.uuid4() five times: the draws are independent; the model keeps one
\* draw of five distinct fresh tokens and one in which a token repeats and
\* another equals a token already stored.
UuidDraws ==
    { [k \in IdKeys |->
          CASE k = "telemetry.devDeviceId"    -> "n1"
            [] k = "telemetry.macMachineId"   -> "n2"
            [] k = "telemetry.machineId"      -> "n3"
            [] k = "telemetry.sqmId"          -> "n4"
            [] k = "storage.serviceMachineId" -> "n5"],
      [k \in IdKeys |->
          CASE k = "telemetry.devDeviceId"    -> "j1"
            [] k = "telemetry.macMachineId"   -> "n2"
            [] k = "telemetry.machineId"      -> "n2"
            [] k = "telemetry.sqmId"          -> "n4"
            [] k = "storage.serviceMachineId" -> "n5"] }

(***************************************************************************)
(* The stores a run may find                                               *)
(***************************************************************************)
DocFull ==
    [k \in IdKeys \cup {"unrelated.key"} |->
        CASE k = "telemetry.devDeviceId"    -> "j1"
          [] k = "telemetry.macMachineId"   -> "j2"
          [] k = "telemetry.machineId"      -> "j3"
          [] k = "telemetry.sqmId"          -> "j4"
          [] k = "storage.serviceMachineId" -> "j5"
          [] OTHER                          -> "x"]

DocPartial ==
    [k \in {"telemetry.devDeviceId", "telemetry.macMachineId", "unrelated.key"} |->
        CASE k = "telemetry.devDeviceId"  -> ""
          [] k = "telemetry.macMachineId" -> "j2"
          [] OTHER                        -> "x"]

DocBare == [k \in {"unrelated.key"} |-> "x"]

\* st: "absent" (no file), "corrupt" (not parseable as JSON), "ok"
StorageFiles ==
    { [st |-> "absent", doc |-> EmptyDict], [st |-> "corrupt", doc |-> EmptyDict] }
    \cup { [st |-> "ok", doc |-> d] : d \in {DocFull, DocPartial, DocBare} }

TableRows ==
    [k \in {"telemetry.devDeviceId", "telemetry.macMachineId", "other.row"} |->
        CASE k = "telemetry.devDeviceId"  -> "s1"
          [] k = "telemetry.macMachineId" -> "s2"
          [] OTHER                        -> "o"]

\* exists: the database file exists; hasTable: it holds ItemTable
SqliteFiles ==
    { [exists |-> FALSE, hasTable |-> FALSE, rows |-> EmptyDict],
      [exists |-> TRUE,  hasTable |-> FALSE, rows |-> EmptyDict],
      [exists |-> TRUE,  hasTable |-> TRUE,  rows |-> TableRows] }

MarkerFiles ==
    { [exists |-> FALSE, content |-> ""], [exists |-> TRUE, content |-> "m1"] }

\* win32: MachineGuid under ...\Cryptography always exists, the SQMClient key
\* may not; darwin: the platform uuid plist may not exist.
Registries(p) ==
    CASE p = "win32" ->
           { [k \in {"MachineGuid"} |-> "g1"],
             [k \in {"MachineGuid", "SQMClient.MachineId"} |->
                 IF k = "MachineGuid" THEN "g1" ELSE "q1"] }
      [] p = "darwin" ->
           { EmptyDict, [k \in {"platform.UUID"} |-> "p1"] }
      [] OTHER -> { EmptyDict }

Init ==
    /\ pc = "Start"
    /\ platform \in Platforms
    /\ faults = 0
    /\ storage \in StorageFiles
    /\ sqlite \in SqliteFiles
    /\ marker \in MarkerFiles
    /\ registry \in Registries(platform)
    /\ backups = EmptyDict
    /\ procQuery = NotQueried
    /\ cursor_running = "(unset)"
    /\ continue_anyway = NoInput
    /\ new_ids = EmptyDict
    /\ confirm = NoInput
    /\ calls = <<>>
    /\ written = {}
    /\ log = {}
    /\ result = "(running)"
    /\ pre = [storage |-> storage, sqlite |-> sqlite, marker |-> marker,
              registry |-> registry]
    /\ config = "(unread)"
    /\ now = 0
    /\ disk = EmptyDict
    /\ runs = 1
    /\ run_result = "(running)"

(***************************************************************************)
(* run(): get_config, then MachineIDResetter.__init__                      *)
(***************************************************************************)
\* cfg: "ok" (config.ini read, or created with this platform's section),
\* "none" (get_config returned None), "nosection" (the file exists without
\* the section of this platform)
\* lines 81-86; arch_release: /etc/arch-release exists
is_arch_linux(p, arch_release) == p = "linux" /\ arch_release

\* get_config, lines 135-172: the section written into a new config.ini
DefaultSection(p, arch_release) ==
    CASE p = "win32"                    -> "WindowsPaths"
      [] p = "darwin"                   -> "MacPaths"
      [] is_arch_linux(p, arch_release) -> "ArchPaths"
      [] OTHER                          -> "LinuxPaths"

\* __init__, lines 199-233: the section storage_path and sqlite_path are
\* read from
ReadSection(p, arch_release) ==
    CASE p = "win32"                    -> "WindowsPaths"
      [] p = "darwin"                   -> "MacPaths"
      [] is_arch_linux(p, arch_release) -> "ArchPaths"
      [] p = "linux"                    -> "LinuxPaths"
      [] OTHER                          -> "NotImplementedError"

Construct_IgnoresSection(p, cfg) ==
    CASE cfg = "none"      -> "ConfigError"
      [] p = "freebsd"     -> "ConfigError"
      [] OTHER             -> "CheckRunning"

Construct(p, cfg) ==
    CASE cfg = "none"      -> "ConfigError"
      [] p = "freebsd"     -> "ConfigError"   \* NotImplementedError
      [] cfg = "nosection" -> "ConfigError"
      [] OTHER             -> "CheckRunning"

\* lines 637-651: return False when get_config gave None or the constructor
\* raised
RunResultAfterConstruct(next) ==
    IF next = "ConfigError" THEN "False" ELSE "(running)"

Run ==
    /\ pc = "Start"
    /\ \E cfg \in {"ok", "none", "nosection"} :
          /\ config' = cfg
          /\ pc' = Construct(platform, cfg)
          /\ run_result' = RunResultAfterConstruct(pc')
    /\ UNCHANGED <<now, disk, runs>>
    /\ UNCHANGED <<platform, faults, storage, sqlite, marker, registry, backups,
                   procQuery, cursor_running, continue_anyway, new_ids, confirm,
                   calls, written, log, result, pre>>

(***************************************************************************)
(* check_cursor_running                                                    *)
(***************************************************************************)
\* The value returned for cursor_running: "True", "False" or "None".  The pid
\* returned with it is only printed and is left out.
check_cursor_running(p, q) ==
    IF ~q.imported
      THEN "None"    \* the except clause names subprocess: the outer handler
      ELSE IF q.first = "found"
             THEN "True"
             ELSE IF p = "win32" /\ q.first \in {"timeout", "missing"}
                                 /\ q.second = "found"
                    THEN "True"
                    ELSE "False"

\* reset_machine_ids, lines 573-577: the check and the warning
NeedsPrompt(running) == running = "True"

CheckRunning ==
    /\ pc = "CheckRunning"
    /\ \E q \in ProcQueries(platform) :
          /\ QueryWorked(q) \/ faults < MaxFaults
          /\ faults' = IF QueryWorked(q) THEN faults ELSE faults + 1
          /\ procQuery' = q
          /\ cursor_running' = check_cursor_running(platform, q)
    /\ IF NeedsPrompt(cursor_running')
         THEN /\ log' = log \cup {"cursor_running_warning"}
              /\ pc' = "PromptContinue"
         ELSE /\ log' = log
              /\ pc' = "CheckFiles"
    /\ UNCHANGED <<config, now, disk, runs, run_result>>
    /\ UNCHANGED <<platform, storage, sqlite, marker, registry, backups,
                   continue_anyway, new_ids, confirm, calls, written, result, pre>>

\* the comparison taken as `answer.lower() == 'n'`: only an explicit n declines
Declined_OnlyN(answer) == Lower(answer) = <<"n">>

\* the comparison taken as `not answer.lower().startswith('y')`
Declined_UnlessStartsWithY(answer) ==
    ~(Len(answer) >= 1 /\ LowerChar(answer[1]) = "y")

\* `answer.lower() != 'y'`
Declined(answer) == Lower(answer) # <<"y">>

\* lines 578-581
PromptContinue ==
    /\ pc = "PromptContinue"
    /\ \E answer \in Inputs :
          /\ continue_anyway' = answer
          /\ IF Declined(answer)
               THEN /\ log' = log \cup {"operation_cancelled"}
                    /\ result' = "False"
                    /\ pc' = "Aborted"
               ELSE /\ log' = log
                    /\ result' = result
                    /\ pc' = "CheckFiles"
    /\ UNCHANGED <<config, now, disk, runs, run_result>>
    /\ UNCHANGED <<platform, faults, storage, sqlite, marker, registry, backups,
                   procQuery, cursor_running, new_ids, confirm, calls, written, pre>>

\* lines 583-591
NoCursorFiles == storage.st = "absent" /\ ~sqlite.exists /\ ~marker.exists

\* the missing files only reported
AfterCheckFiles_GoesOn(noFiles) == "Backup"

\* the backup step left out
AfterCheckFiles_SkipsBackup(noFiles) == IF noFiles THEN "Done" ELSE "Generate"

\* lines 585-597: what follows the check of the files
AfterCheckFiles(noFiles) == IF noFiles THEN "Done" ELSE "Backup"

CheckFiles ==
    /\ pc = "CheckFiles"
    /\ pc' = AfterCheckFiles(NoCursorFiles)
    /\ IF NoCursorFiles
         THEN /\ log' = log \cup {"files_not_found"}
              /\ result' = "False"
         ELSE /\ log' = log
              /\ result' = result
    /\ UNCHANGED <<config, now, disk, runs, run_result>>
    /\ UNCHANGED <<platform, faults, storage, sqlite, marker, registry, backups,
                   procQuery, cursor_running, continue_anyway, new_ids, confirm,
                   calls, written, pre>>

(***************************************************************************)
(* backup_current_ids                                                      *)
(***************************************************************************)
\* lines 299-300, 326-327, 389-390: the name of a backup file ends in the
\* time of its writing, formatted to the second
BackupPath(kind, timestamp) == <<kind, timestamp>>

StorageBak == "storage.json.bak"
StorageRestoreBak == "storage.json.restore_bak"
MachineIdRestoreBak == "machineId.restore_bak"

Cnt(b) == IF b THEN 1 ELSE 0

\* only the keys storage.json has, without the "" default
StorageIds_PresentOnly(file, readOk) ==
    IF file.st = "ok" /\ readOk
      THEN [k \in IdKeys \cap DOMAIN file.doc |-> file.doc[k]]
      ELSE EmptyDict

\* lines 258-270: the five keys as storage.json has them, "" for a missing key
StorageIds(file, readOk) ==
    IF file.st = "ok" /\ readOk
      THEN [k \in IdKeys |-> Get(file.doc, k, "")]
      ELSE EmptyDict

\* a row taken whatever storage.json gave for its key
SqliteIds_Overrides(current_ids, db, readOk) ==
    IF db.exists /\ readOk
      THEN Update(current_ids,
                  [k \in IdKeys \cap DOMAIN db.rows |-> db.rows[k]])
      ELSE current_ids

\* lines 284-290: a row fills a key that storage.json left missing or empty
SqliteIds(current_ids, db, readOk) ==
    IF db.exists /\ readOk
      THEN Update(current_ids,
                  [k \in {x \in IdKeys : x \in DOMAIN db.rows
                                         /\ Get(current_ids, x, "") = ""} |->
                      db.rows[k]])
      ELSE current_ids

\* lines 275-282: CREATE TABLE IF NOT EXISTS is not part of a transaction
CreateTable(db) == [db EXCEPT !.hasTable = TRUE]

\* what the environment does to the three I/O steps of the backup
BackupOutcomes ==
    [read : {"ok", "error"}, db : {"ok", "connect_error", "select_error"},
     write : {"ok", "error"}]

BackupFaults(o) == Cnt(o.read # "ok") + Cnt(o.db # "ok") + Cnt(o.write # "ok")

backup_current_ids(o) ==
    LET fromJson == StorageIds(storage, o.read = "ok")
        current_ids == SqliteIds(fromJson, sqlite, o.db = "ok")
    IN  /\ o.read = "error" => storage.st = "ok"
        /\ o.db # "ok" => sqlite.exists
        /\ o.write = "error" => DOMAIN current_ids # {}
        /\ faults + BackupFaults(o) <= MaxFaults
        /\ faults' = faults + BackupFaults(o)
        /\ sqlite' = IF sqlite.exists /\ o.db # "connect_error"
                       THEN CreateTable(sqlite)
                       ELSE sqlite
        /\ backups' = IF DOMAIN current_ids # {} /\ o.write = "ok"
                        THEN Update(backups, [k \in {StorageBak} |-> current_ids])
                        ELSE backups
        /\ disk' = IF DOMAIN current_ids # {} /\ o.write = "ok"
                     THEN Update(disk, [k \in {BackupPath(StorageBak, now)} |->
                                           current_ids])
                     ELSE disk
        /\ log' = log
                  \cup (IF storage.st = "corrupt" \/ o.read = "error"
                          THEN {"storage_read_warning"} ELSE {})
                  \cup (IF o.db # "ok" THEN {"sqlite_read_warning"} ELSE {})
                  \cup (IF DOMAIN current_ids = {} THEN {"no_current_ids"}
                        ELSE IF o.write = "ok" THEN {"backup_saved"}
                        ELSE {"backup_error"})

\* line 594: the value backup_current_ids returns is not looked at
Backup ==
    /\ pc = "Backup"
    /\ \E o \in BackupOutcomes : backup_current_ids(o)
    /\ pc' = "Generate"
    /\ UNCHANGED <<config, now, runs, run_result>>
    /\ UNCHANGED <<platform, storage, marker, registry, procQuery, cursor_running,
                   continue_anyway, new_ids, confirm, calls, written, result, pre>>

(***************************************************************************)
(* generate_new_ids, the preview and the confirm-reset prompt              *)
(***************************************************************************)
\* identifiers taken over from storage.json where it has them
generate_new_ids_FromStore ==
    { [k \in IdKeys |-> Get(storage.doc, k, draw[k])] : draw \in UuidDraws }

generate_new_ids == UuidDraws

\* lines 596-602
Generate ==
    /\ pc = "Generate"
    /\ new_ids' \in generate_new_ids
    /\ log' = log \cup {"ids_to_reset"}
    /\ pc' = "Confirm"
    /\ UNCHANGED <<config, now, disk, runs, run_result>>
    /\ UNCHANGED <<platform, faults, storage, sqlite, marker, registry, backups,
                   procQuery, cursor_running, continue_anyway, confirm, calls,
                   written, result, pre>>

\* lines 604-608
Confirm ==
    /\ pc = "Confirm"
    /\ \E answer \in Inputs :
          /\ confirm' = answer
          /\ IF Declined(answer)
               THEN /\ log' = log \cup {"operation_cancelled"}
                    /\ result' = "False"
                    /\ pc' = "Aborted"
               ELSE /\ log' = log
                    /\ result' = result
                    /\ pc' = "UpdateStorage"
    /\ UNCHANGED <<config, now, disk, runs, run_result>>
    /\ UNCHANGED <<platform, faults, storage, sqlite, marker, registry, backups,
                   procQuery, cursor_running, continue_anyway, new_ids, calls,
                   written, pre>>

(***************************************************************************)
(* The four store mutators                                                 *)
(***************************************************************************)
Called(fn, ret) == Append(calls, [fn |-> fn, ret |-> ret])

Put(d, k, v) == Update(d, [x \in {k} |-> v])

\* the document written holding the new ids alone
MergeIds_Replaces(current_data, ids) == ids

\* line 332: current_data.update(ids)
MergeIds(current_data, ids) == Update(current_data, ids)

\* update_current_file, lines 314-342.  o: "ok", "read_error", "copy_error",
\* "open_error" (the file cannot be opened for writing), "dump_error" (the
\* file was opened, and so truncated, and the dump failed)
StorageOutcomes == {"ok", "read_error", "copy_error", "open_error", "dump_error"}

\* a failed copy only reported, as for the machineId file
OpensAfterCopy_Regardless(copied) == TRUE

\* lines 326-335: an exception of shutil.copy2 leaves the try block, so
\* open(self.db_path, "w") is reached only after the copy was made
OpensAfterCopy(copied) == copied

update_current_file(ids, o) ==
    LET readable == storage.st = "ok" /\ o # "read_error"
        copied == readable /\ o # "copy_error"
        opened == readable /\ OpensAfterCopy(copied) /\ o # "open_error"
        ret == opened /\ o = "ok"
    IN  /\ o # "ok" => storage.st # "absent"
        /\ o \in {"copy_error", "open_error", "dump_error"} => storage.st = "ok"
        /\ o = "ok" \/ faults < MaxFaults
        /\ faults' = faults + Cnt(o # "ok")
        /\ backups' = IF copied THEN Put(backups, StorageRestoreBak, storage)
                                ELSE backups
        /\ disk' = IF copied
                     THEN Put(disk, BackupPath(StorageRestoreBak, now), storage)
                     ELSE disk
        /\ storage' = IF ~opened THEN storage
                      ELSE IF o = "ok"
                             THEN [storage EXCEPT !.doc = MergeIds(storage.doc, ids)]
                             ELSE [st |-> "corrupt", doc |-> EmptyDict]
        /\ written' = IF opened THEN written \cup {"JsonStore"} ELSE written
        /\ log' = log \cup (IF storage.st = "absent" THEN {"current_file_not_found"}
                            ELSE IF ret THEN {"storage_updated"}
                            ELSE {"update_failed"})
        /\ calls' = Called("update_current_file", ret)

\* the value returned by update_current_file not looked at
AfterStorage_GoesOn(ret) == "UpdateSqlite"

\* lines 610-612: a failed canonical apply ends the run
AfterStorage(ret) == IF ret THEN "UpdateSqlite" ELSE "Done"

UpdateStorage ==
    /\ pc = "UpdateStorage"
    /\ \E o \in StorageOutcomes : update_current_file(new_ids, o)
    /\ pc' = AfterStorage(calls'[Len(calls')].ret)
    /\ result' = IF pc' = "Done" THEN "False" ELSE result
    /\ UNCHANGED <<config, now, runs, run_result>>
    /\ UNCHANGED <<platform, sqlite, marker, registry, procQuery, cursor_running,
                   continue_anyway, new_ids, confirm, pre>>

\* update_sqlite_db, lines 344-377.  o: "ok", "connect_error" (nothing was
\* executed), "write_error" (an upsert or the commit failed: the open
\* transaction is rolled back, the table creation is not)
SqliteOutcomes == {"ok", "connect_error", "write_error"}

\* each upsert committed on its own: the rows written before the error stay
AfterWriteError_KeepsUpserts(db, ids) ==
    [CreateTable(db) EXCEPT !.rows =
        Update(db.rows, [k \in {"telemetry.devDeviceId"} |->
                            Get(ids, k, "")])]

\* lines 363-377: the upserts belong to one transaction that only
\* conn.commit() (line 370) ends; an exception before it leaves the
\* connection without commit and the upserts are rolled back
AfterWriteError(db, ids) == CreateTable(db)

\* the table emptied before the five rows are inserted
UpsertRows_ReplacesTable(rows, ids) == ids

\* lines 363-368: INSERT OR REPLACE INTO ItemTable for every key of ids
UpsertRows(rows, ids) == Update(rows, ids)

update_sqlite_db(ids, o) ==
    LET ret == sqlite.exists /\ o = "ok"
    IN  /\ o # "ok" => sqlite.exists
        /\ o = "ok" \/ faults < MaxFaults
        /\ faults' = faults + Cnt(o # "ok")
        /\ sqlite' = IF ~sqlite.exists \/ o = "connect_error" THEN sqlite
                     ELSE IF o = "write_error" THEN AfterWriteError(sqlite, ids)
                     ELSE [CreateTable(sqlite) EXCEPT !.rows = UpsertRows(sqlite.rows, ids)]
        /\ written' = IF ret THEN written \cup {"EmbeddedKeyValueStore"} ELSE written
        /\ log' = log \cup (IF ~sqlite.exists THEN {"sqlite_not_found"}
                            ELSE IF ret THEN {"sqlite_updated"}
                            ELSE {"sqlite_update_failed"})
        /\ calls' = Called("update_sqlite_db", ret)

\* a failed embedded-store apply tried again
AfterSqlite_RetriesOnFailure(ret) ==
    IF ret THEN "UpdateMachineId" ELSE "UpdateSqlite"

\* a failed embedded-store apply ending the run
AfterSqlite_StopsOnFailure(ret) == IF ret THEN "UpdateMachineId" ELSE "Done"

\* lines 614-615: the value returned is not looked at
AfterSqlite(ret) == "UpdateMachineId"

UpdateSqlite ==
    /\ pc = "UpdateSqlite"
    /\ \E o \in SqliteOutcomes : update_sqlite_db(new_ids, o)
    /\ pc' = AfterSqlite(calls'[Len(calls')].ret)
    /\ UNCHANGED <<config, now, disk, runs, run_result>>
    /\ UNCHANGED <<platform, storage, marker, registry, backups, procQuery,
                   cursor_running, continue_anyway, new_ids, confirm, result, pre>>

\* update_machine_id_file, lines 379-405.  mkdir: os.makedirs; copy: the
\* shutil.copy2 of an existing file; write: "open_error" leaves the file as
\* it is, "write_error" leaves it opened and truncated
MachineIdOutcomes ==
    [mkdir : {"ok", "error"}, copy : {"ok", "error"},
     write : {"ok", "open_error", "write_error"}]

MachineIdFaults(o) ==
    Cnt(o.mkdir # "ok") + Cnt(o.copy # "ok") + Cnt(o.write # "ok")

\* lines 391-395: a failed backup copy is reported and the write goes on
WriteAfterCopy(copyOk) == TRUE

update_machine_id_file(dev_device_id, o) ==
    LET inDir == o.mkdir = "ok"
        copied == inDir /\ marker.exists /\ o.copy = "ok"
        goesOn == inDir /\ (marker.exists => WriteAfterCopy(o.copy = "ok"))
        opened == goesOn /\ o.write # "open_error"
        ret == opened /\ o.write = "ok"
    IN  /\ o.mkdir = "error" => o.copy = "ok" /\ o.write = "ok"
        /\ o.copy = "error" => marker.exists
        /\ faults + MachineIdFaults(o) <= MaxFaults
        /\ faults' = faults + MachineIdFaults(o)
        /\ backups' = IF copied
                        THEN Put(backups, MachineIdRestoreBak, marker.content)
                        ELSE backups
        /\ disk' = IF copied
                     THEN Put(disk, BackupPath(MachineIdRestoreBak, now),
                              marker.content)
                     ELSE disk
        /\ marker' = IF ~opened THEN marker
                     ELSE [exists |-> TRUE,
                           content |-> IF ret THEN dev_device_id ELSE ""]
        /\ written' = IF opened THEN written \cup {"MarkerFile"} ELSE written
        /\ log' = log
                  \cup (IF inDir /\ marker.exists /\ o.copy = "error"
                          THEN {"backup_creation_failed"} ELSE {})
                  \cup (IF ret THEN {"machine_id_updated"}
                               ELSE {"machine_id_update_failed"})
        /\ calls' = Called("update_machine_id_file", ret)

\* a failed marker-file apply tried again
AfterMachineId_RetriesOnFailure(ret) ==
    IF ret THEN "UpdateSystem" ELSE "UpdateMachineId"

\* lines 617-618: the value returned is not looked at
AfterMachineId(ret) == "UpdateSystem"

\* the marker file given the machine id instead
DeviceIdOf_MachineId(ids) == Get(ids, "telemetry.machineId", "")

\* line 618: new_ids.get("telemetry.devDeviceId", "")
DeviceIdOf(ids) == Get(ids, "telemetry.devDeviceId", "")

UpdateMachineId ==
    /\ pc = "UpdateMachineId"
    /\ \E o \in MachineIdOutcomes :
          update_machine_id_file(DeviceIdOf(new_ids), o)
    /\ pc' = AfterMachineId(calls'[Len(calls')].ret)
    /\ UNCHANGED <<config, now, runs, run_result>>
    /\ UNCHANGED <<platform, storage, sqlite, registry, procQuery, cursor_running,
                   continue_anyway, new_ids, confirm, result, pre>>

\* update_system_ids, lines 407-481.  winreg: `import winreg`; guid, sqm: the
\* OpenKey/SetValueEx pair of each registry value ("permission" is a
\* PermissionError, "error" any other exception); plutil: the exit status of
\* the `sudo plutil` command.  Every exception is handled inside the two
\* platform helpers, so update_system_ids returns True.
SystemOutcomes(p) ==
    CASE p = "win32" ->
           [winreg : {"ok", "import_error"}, guid : {"ok", "permission", "error"},
            sqm : {"ok", "permission", "error"}, plutil : {"ok"}]
      [] p = "darwin" ->
           [winreg : {"ok"}, guid : {"ok"}, sqm : {"ok"}, plutil : {"ok", "failed"}]
      [] OTHER ->
           [winreg : {"ok"}, guid : {"ok"}, sqm : {"ok"}, plutil : {"ok"}]

SystemFaults(o) ==
    Cnt(o.winreg # "ok") + Cnt(o.guid # "ok") + Cnt(o.sqm # "ok")
    + Cnt(o.plutil # "ok")

\* lines 422-465
update_windows_system_ids(ids, o) ==
    LET guid == Get(ids, "telemetry.devDeviceId", "")
        sqm_id == Get(ids, "telemetry.sqmId", "")
        setGuid == o.winreg = "ok" /\ guid # "" /\ o.guid = "ok"
        sqmKey == "SQMClient.MachineId" \in DOMAIN registry
        trySqm == o.winreg = "ok" /\ sqm_id # ""
        setSqm == trySqm /\ sqmKey /\ o.sqm = "ok"
        reg1 == IF setGuid THEN Put(registry, "MachineGuid", guid) ELSE registry
    IN  /\ o.winreg # "ok" => o.guid = "ok" /\ o.sqm = "ok"
        /\ o.sqm # "ok" => sqmKey
        /\ registry' = IF setSqm THEN Put(reg1, "SQMClient.MachineId", sqm_id)
                                 ELSE reg1
        /\ written' = IF setGuid \/ setSqm THEN written \cup {"PlatformRegistry"}
                                           ELSE written
        /\ log' = log
                  \cup (IF o.winreg # "ok" THEN {"update_windows_system_ids_failed"}
                        ELSE {})
                  \cup (IF setGuid THEN {"windows_machine_guid_updated"} ELSE {})
                  \cup (IF setSqm THEN {"windows_machine_id_updated"} ELSE {})
                  \cup (IF trySqm /\ ~sqmKey THEN {"sqm_client_key_not_found"}
                        ELSE {})
                  \cup (IF "permission" \in {o.guid, o.sqm}
                          THEN {"permission_denied"} ELSE {})
                  \cup (IF o.guid = "error"
                          THEN {"update_windows_machine_guid_failed"} ELSE {})
                  \cup (IF o.sqm = "error"
                          THEN {"update_windows_machine_id_failed"} ELSE {})

\* lines 467-481
update_macos_system_ids(ids, o) ==
    LET mac_id == Get(ids, "telemetry.macMachineId", "")
        run == "platform.UUID" \in DOMAIN registry /\ mac_id # ""
        set == run /\ o.plutil = "ok"
    IN  /\ o.plutil # "ok" => run
        /\ registry' = IF set THEN Put(registry, "platform.UUID", mac_id)
                              ELSE registry
        /\ written' = IF set THEN written \cup {"PlatformRegistry"} ELSE written
        /\ log' = log
                  \cup (IF set THEN {"macos_platform_uuid_updated"} ELSE {})
                  \cup (IF run /\ ~set THEN {"failed_to_execute_plutil_command"}
                        ELSE {})

\* a machine id written on the other platforms too
update_system_ids_WritesElsewhere(ids, o) ==
    /\ faults + SystemFaults(o) <= MaxFaults
    /\ faults' = faults + SystemFaults(o)
    /\ IF platform = "win32" THEN update_windows_system_ids(ids, o)
       ELSE IF platform = "darwin" THEN update_macos_system_ids(ids, o)
       ELSE /\ registry' = Put(registry, "machine-id",
                               Get(ids, "telemetry.machineId", ""))
            /\ written' = written \cup {"PlatformRegistry"}
            /\ UNCHANGED log
    /\ calls' = Called("update_system_ids", TRUE)

\* lines 407-420
update_system_ids(ids, o) ==
    /\ faults + SystemFaults(o) <= MaxFaults
    /\ faults' = faults + SystemFaults(o)
    /\ IF platform = "win32" THEN update_windows_system_ids(ids, o)
       ELSE IF platform = "darwin" THEN update_macos_system_ids(ids, o)
       ELSE UNCHANGED <<registry, written, log>>
    /\ calls' = Called("update_system_ids", TRUE)

\* True only if every mutator returned True
ResultAfterMutators_AllApplied(cs) ==
    IF \A i \in DOMAIN cs : cs[i].ret THEN "True" ELSE "False"

\* line 625: return True, whatever the secondary mutators returned
ResultAfterMutators(cs) == "True"

\* lines 620-625
UpdateSystem ==
    /\ pc = "UpdateSystem"
    /\ \E o \in SystemOutcomes(platform) : update_system_ids(new_ids, o)
    /\ result' = ResultAfterMutators(calls')
    /\ pc' = "Done"
    /\ UNCHANGED <<config, now, disk, runs, run_result>>
    /\ UNCHANGED <<platform, storage, sqlite, marker, backups, procQuery,
                   cursor_running, continue_anyway, new_ids, confirm, pre>>

\* what the press-Enter prompt of run() does: a line is read, or stdin is at
\* its end and input() raises EOFError
PressEnterOutcomes == {"line", "EOFError"}

\* lines 653-655: input(press_enter) stands outside the try block of run()
RunResultAfterReset(o) == IF o = "line" THEN "True" ELSE "EOFError"

\* lines 647, 653-655: reset_machine_ids has returned; its value is dropped
Finish ==
    /\ pc \in {"Done", "Aborted"}
    /\ run_result = "(running)"
    /\ \E o \in PressEnterOutcomes : run_result' = RunResultAfterReset(o)
    /\ UNCHANGED <<pc, platform, faults, storage, sqlite, marker, registry,
                   backups, procQuery, cursor_running, continue_anyway,
                   new_ids, confirm, calls, written, log, result, pre,
                   config, now, disk, runs>>

\* the steps of reset_machine_ids, lines 568-630
ResetStep ==
    CheckRunning \/ PromptContinue \/ CheckFiles \/ Backup \/ Generate
    \/ Confirm \/ UpdateStorage \/ UpdateSqlite \/ UpdateMachineId
    \/ UpdateSystem

Next == Run \/ CheckRunning \/ PromptContinue \/ CheckFiles \/ Backup
        \/ Generate \/ Confirm \/ UpdateStorage \/ UpdateSqlite \/ UpdateMachineId
        \/ UpdateSystem \/ Finish

Spec == Init /\ [][Next]_vars

\* run() and reset_machine_ids are straight-line code: a step that can be
\* taken is taken, and a prompt that is shown is answered
Fairness == WF_vars(Run) /\ WF_vars(ResetStep)

SpecLive == Spec /\ Fairness

(***************************************************************************)
(* The script run again on the same machine                                *)
(***************************************************************************)
\* the wall clock that datetime.now().strftime("%Y%m%d_%H%M%S") reads moves
\* on by one second
Tick ==
    /\ now < MaxClock
    /\ now' = now + 1
    /\ UNCHANGED <<pc, platform, faults, storage, sqlite, marker, registry,
                   backups, procQuery, cursor_running, continue_anyway,
                   new_ids, confirm, calls, written, log, result, pre,
                   config, disk, runs, run_result>>

Terminated == pc \in {"Done", "Aborted", "ConfigError"}

\* a new process executes run(): the files, the registry and the clock are
\* what the last run left, everything in memory is new
Rerun ==
    /\ Terminated
    /\ runs < MaxRuns
    /\ runs' = runs + 1
    /\ pc' = "Start"
    /\ backups' = EmptyDict
    /\ procQuery' = NotQueried
    /\ cursor_running' = "(unset)"
    /\ continue_anyway' = NoInput
    /\ new_ids' = EmptyDict
    /\ confirm' = NoInput
    /\ calls' = <<>>
    /\ written' = {}
    /\ log' = {}
    /\ result' = "(running)"
    /\ config' = "(unread)"
    /\ run_result' = "(running)"
    /\ pre' = [storage |-> storage, sqlite |-> sqlite, marker |-> marker,
               registry |-> registry]
    /\ UNCHANGED <<platform, faults, storage, sqlite, marker, registry, now,
                   disk>>

\* a Linux machine that has all three stores, each with identifiers
InitRerun ==
    /\ Init
    /\ platform = "linux"
    /\ storage = [st |-> "ok", doc |-> DocFull]
    /\ sqlite = [exists |-> TRUE, hasTable |-> TRUE, rows |-> TableRows]
    /\ marker.exists

NextRerun == Next \/ Tick \/ Rerun

SpecRerun == InitRerun /\ [][NextRerun]_vars

(***************************************************************************)
(* generate_new_ids with the text of the identifiers                       *)
(***************************************************************************)
\* Spec keeps an identifier as an opaque token; here str(uuid.uuid4()) is
\* computed from the 16 random bytes uuid4 reads.
RandomSamples ==
    { [i \in 1..16 |-> 0],
      [i \in 1..16 |-> 255],
      [i \in 1..16 |-> (i * 37 + 11) % 256] }

\* uuid.uuid4(): UUID(bytes=os.urandom(16), version=4) sets the version
\* nibble to 4 and the two variant bits to 10
uuid4(random_bytes) ==
    [i \in 1..16 |->
        IF i = 7 THEN 64 + (random_bytes[i] % 16)
        ELSE IF i = 9 THEN 128 + (random_bytes[i] % 64)
        ELSE random_bytes[i]]

HexDigits ==
    <<"0", "1", "2", "3", "4", "5", "6", "7", "8", "9",
      "a", "b", "c", "d", "e", "f">>

\* '%032x' % int: two lower-case digits for each byte
RECURSIVE Hex32(_)
Hex32(bytes) ==
    IF bytes = <<>> THEN <<>>
    ELSE <<HexDigits[(Head(bytes) \div 16) + 1],
           HexDigits[(Head(bytes) % 16) + 1]>> \o Hex32(Tail(bytes))

\* the digits alone, as UUID.hex gives them
UuidHex(u) == Hex32(u)

\* UUID.__str__: '%s-%s-%s-%s-%s' % (hex[:8], hex[8:12], hex[12:16],
\* hex[16:20], hex[20:])
UuidStr(u) ==
    LET hex == Hex32(u)
    IN  SubSeq(hex, 1, 8) \o <<"-">> \o SubSeq(hex, 9, 12) \o <<"-">>
        \o SubSeq(hex, 13, 16) \o <<"-">> \o SubSeq(hex, 17, 20) \o <<"-">>
        \o SubSeq(hex, 21, 32)

\* lines 235-248: five independent calls of str(uuid.uuid4())
GenerateUuids ==
    /\ pc = "Generate"
    /\ \E draw \in [IdKeys -> RandomSamples] :
          new_ids' = [k \in IdKeys |-> UuidStr(uuid4(draw[k]))]
    /\ log' = log \cup {"generating_new_ids"}
    /\ pc' = "Generated"
    /\ UNCHANGED <<platform, faults, storage, sqlite, marker, registry,
                   backups, procQuery, cursor_running, continue_anyway,
                   confirm, calls, written, result, pre, config, now, disk,
                   runs, run_result>>

\* generate_new_ids called on a resetter of a Linux machine
InitGen ==
    /\ pc = "Generate"
    /\ platform = "linux"
    /\ faults = 0
    /\ storage = [st |-> "ok", doc |-> DocFull]
    /\ sqlite = [exists |-> TRUE, hasTable |-> TRUE, rows |-> TableRows]
    /\ marker = [exists |-> TRUE, content |-> "m1"]
    /\ registry = EmptyDict
    /\ backups = EmptyDict
    /\ procQuery = NotQueried
    /\ cursor_running = "(unset)"
    /\ continue_anyway = NoInput
    /\ new_ids = EmptyDict
    /\ confirm = NoInput
    /\ calls = <<>>
    /\ written = {}
    /\ log = {}
    /\ result = "(running)"
    /\ pre = [storage |-> storage, sqlite |-> sqlite, marker |-> marker,
              registry |-> registry]
    /\ config = "ok"
    /\ now = 0
    /\ disk = EmptyDict
    /\ runs = 1
    /\ run_result = "(running)"

NextGen == GenerateUuids

SpecGen == InitGen /\ [][NextGen]_vars

(***************************************************************************)
(* Vocabulary of the properties                                            *)
(***************************************************************************)
Affirmative == {<<"y">>, <<"Y">>}

Asked(answer) == answer # NoInput

StoresAsBefore ==
    /\ storage = pre.storage
    /\ sqlite = pre.sqlite
    /\ marker = pre.marker
    /\ registry = pre.registry

BackupStepRan == log \cap {"no_current_ids", "backup_saved", "backup_error"} # {}

MutatorOrder == <<"update_current_file", "update_sqlite_db",
                  "update_machine_id_file", "update_system_ids">>

CanonicalApplied == Len(calls) >= 1 /\ calls[1].ret

CanonicalFailed == Len(calls) >= 1 /\ ~calls[1].ret

\* a persisted snapshot holding what backend b held when the run started
SnapshotOf(b) ==
    CASE b = "JsonStore" ->
           /\ StorageRestoreBak \in DOMAIN backups
           /\ backups[StorageRestoreBak] = pre.storage
      [] b = "EmbeddedKeyValueStore" ->
           IdKeys \cap DOMAIN pre.sqlite.rows # {} =>
              /\ StorageBak \in DOMAIN backups
              /\ \A k \in IdKeys \cap DOMAIN pre.sqlite.rows :
                    backups[StorageBak][k] = pre.sqlite.rows[k]
      [] b = "MarkerFile" ->
           pre.marker.exists =>
              /\ MachineIdRestoreBak \in DOMAIN backups
              /\ backups[MachineIdRestoreBak] = pre.marker.content
      [] OTHER -> "registry.bak" \in DOMAIN backups

\* the whole process query failed: no tool gave an answer
QueryFailed(q) ==
    q.imported /\ q.first \in {"timeout", "missing"} /\ q.second \in {"unused", "failed"}

PastProcessCheck ==
    pc \in {"CheckFiles", "Backup", "Generate", "Confirm", "UpdateStorage",
            "UpdateSqlite", "UpdateMachineId", "UpdateSystem", "Done"}

(***************************************************************************)
(* Properties                                                              *)
(***************************************************************************)

\* C1: every backend that has received a destructive write has, persisted
\* earlier in the same run, a snapshot of the value it held before the run.
C1_SnapshotBeforeWrite == \A b \in written : SnapshotOf(b)

\* C2: when the snapshot write of a backend fails, that backend is not
\* written in the run and its mutator reports failure: a failed copy of the
\* machineId file leaves the file as it was and update_machine_id_file
\* returns False; a failed write of the identifier backup leaves the
\* embedded store unwritten.
C2_FailedSnapshotBlocksWrite ==
    /\ "backup_creation_failed" \in log =>
          /\ "MarkerFile" \notin written
          /\ marker = pre.marker
          /\ ~calls[3].ret
    /\ "backup_error" \in log => "EmbeddedKeyValueStore" \notin written

\* C3: when update_current_file returned False, no secondary mutator has
\* been invoked, the secondary stores hold what they held when the apply
\* began, and the run is over with result False.
C3_CanonicalFailureStopsRun ==
    CanonicalFailed =>
        /\ Len(calls) = 1
        /\ pc = "Done"
        /\ result = "False"
        /\ written \subseteq {"JsonStore"}
        /\ sqlite.rows = pre.sqlite.rows
        /\ marker = pre.marker
        /\ registry = pre.registry

C3_Witness ==
    /\ CanonicalFailed
    /\ pc = "Done"
    /\ pre.storage.st = "ok"
    /\ StorageRestoreBak \in DOMAIN backups
    /\ sqlite.hasTable
    /\ marker.exists

\* C4: once the operator has answered the running-process prompt with
\* anything but y, the run is Aborted with result False, the four stores are
\* as they were, no backup artifact exists and no mutator was invoked.
C4_DeclineWhileRunningWritesNothing ==
    (Asked(continue_anyway) /\ continue_anyway \notin Affirmative) =>
        /\ pc = "Aborted"
        /\ result = "False"
        /\ StoresAsBefore
        /\ DOMAIN backups = {}
        /\ written = {}
        /\ calls = <<>>
        /\ DOMAIN new_ids = {}

C4_Witness ==
    /\ pc = "Aborted"
    /\ cursor_running = "True"
    /\ continue_anyway = <<"n">>
    /\ pre.storage.st = "ok"
    /\ pre.sqlite.exists
    /\ ~pre.sqlite.hasTable

\* C5: once the operator has answered the confirm-reset prompt with anything
\* but y, the run is Aborted and the JSON store, the embedded store (its
\* table schema included), the marker file and the registry are exactly as
\* they were before the run.
C5_DeclineConfirmMutatesNothing ==
    (Asked(confirm) /\ confirm \notin Affirmative) =>
        /\ pc = "Aborted"
        /\ StoresAsBefore

C7_SecondaryMutatorsInOrder ==
    /\ Len(calls) <= Len(MutatorOrder)
    /\ \A i \in DOMAIN calls : calls[i].fn = MutatorOrder[i]
    /\ CanonicalApplied =>
          /\ pc = CASE Len(calls) = 1 -> "UpdateSqlite"
                    [] Len(calls) = 2 -> "UpdateMachineId"
                    [] Len(calls) = 3 -> "UpdateSystem"
                    [] OTHER          -> "Done"
          /\ pc # "Done" => ENABLED ResetStep
          /\ pc = "Done" => result = "True"

C7_Witness ==
    /\ pc = "Done"
    /\ Len(calls) = 4
    /\ calls[1].ret
    /\ ~calls[2].ret
    /\ ~calls[3].ret
    /\ "sqlite_update_failed" \in log
    /\ "machine_id_update_failed" \in log

\* C8: at either prompt every input other than y (in either case) - the
\* empty input, n, and longer texts, those beginning with y included - ends
\* the run Aborted with result False, no mutator invoked and no destructive
\* write made.
C8_NonAffirmativeInputAborts ==
    \A answer \in {continue_anyway, confirm} :
        (Asked(answer) /\ answer \notin Affirmative) =>
            /\ pc = "Aborted"
            /\ result = "False"
            /\ calls = <<>>
            /\ written = {}
            /\ ~ENABLED ResetStep

C8_Witness ==
    /\ pc = "Aborted"
    /\ continue_anyway = <<"Y">>
    /\ confirm = <<"y", "y">>

\* C9: when check_cursor_running reported running (True) or unknown (None),
\* the run is past the process check only with the warning printed and the
\* running-process prompt answered y.
C9_RunningOrUnknownNeedsConfirmation ==
    (cursor_running \in {"True", "None"} /\ PastProcessCheck) =>
        /\ "cursor_running_warning" \in log
        /\ continue_anyway \in Affirmative

\* C10: when the process query timed out or its tool is missing or failed,
\* check_cursor_running returned unknown (None), and the orchestrator
\* printed a warning.
C10_FailedQueryIsUnknown ==
    (QueryFailed(procQuery) /\ pc # "CheckRunning") =>
        /\ cursor_running = "None"
        /\ "cursor_running_warning" \in log

\* C11: a mutator whose source file is absent does not return the failure
\* value False, and an absent source file does not end the run: with
\* storage.json or state.vscdb absent the run still reaches all four
\* mutators.
C11_AbsentSourceIsSkipped ==
    /\ "current_file_not_found" \in log => calls[1].ret
    /\ "sqlite_not_found" \in log => calls[2].ret
    /\ (pc = "Done" /\ calls # <<>>) => Len(calls) = Len(MutatorOrder)

\* C12: after update_current_file returned True, storage.json holds every
\* key of the pre-apply document that is not an identifier key with its
\* value unchanged, holds the five identifier keys with the values of the
\* new set, and holds no other key.
C12_ApplyMergesFiveKeys ==
    CanonicalApplied =>
        /\ storage.st = "ok"
        /\ DOMAIN storage.doc = DOMAIN pre.storage.doc \cup IdKeys
        /\ \A k \in IdKeys : storage.doc[k] = new_ids[k]
        /\ \A k \in DOMAIN pre.storage.doc \ IdKeys :
              storage.doc[k] = pre.storage.doc[k]

C12_Witness ==
    /\ CanonicalApplied
    /\ pre.storage.doc = DocBare
    /\ storage.doc["unrelated.key"] = "x"
    /\ storage.doc["telemetry.sqmId"] = "n4"

\* writing the values of an identifier backup back into a document
Replay(doc, bak) == Update(doc, bak)

BackupReadStorage == pre.storage.st = "ok" /\ "storage_read_warning" \notin log

BackupReadSqlite == pre.sqlite.exists /\ "sqlite_read_warning" \notin log

RowOf(k) ==
    IF BackupReadSqlite /\ k \in DOMAIN pre.sqlite.rows
      THEN {pre.sqlite.rows[k]}
      ELSE {}

C15_BackupArtifactsWrittenOnce ==
    [][\A path \in DOMAIN disk :
          path \in DOMAIN disk' /\ disk'[path] = disk[path]]_vars

\* C16: every backend write of a run uses the one identifier set the run
\* generated: the five keys of storage.json and the ItemTable rows hold the
\* values of new_ids; the marker file and the registry value MachineGuid
\* hold its device id, the SQMClient MachineId its sqm id and the macOS
\* platform UUID its mac machine id; and no write happens before the set
\* has its five values.
C16_WritesUseTheOneNewSet ==
    /\ written # {} => DOMAIN new_ids = IdKeys
    /\ CanonicalApplied => \A k \in IdKeys : storage.doc[k] = new_ids[k]
    /\ "sqlite_updated" \in log =>
          \A k \in IdKeys : sqlite.rows[k] = new_ids[k]
    /\ "machine_id_updated" \in log =>
          marker.content = new_ids["telemetry.devDeviceId"]
    /\ "windows_machine_guid_updated" \in log =>
          registry["MachineGuid"] = new_ids["telemetry.devDeviceId"]
    /\ "windows_machine_id_updated" \in log =>
          registry["SQMClient.MachineId"] = new_ids["telemetry.sqmId"]
    /\ "macos_platform_uuid_updated" \in log =>
          registry["platform.UUID"] = new_ids["telemetry.macMachineId"]

C16_Witness ==
    /\ pc = "Done"
    /\ platform = "win32"
    /\ {"sqlite_updated", "machine_id_updated", "windows_machine_guid_updated",
        "windows_machine_id_updated"} \subseteq log
    /\ CanonicalApplied
    /\ marker.content = storage.doc["telemetry.devDeviceId"]
    /\ marker.content = sqlite.rows["telemetry.devDeviceId"]
    /\ marker.content = registry["MachineGuid"]
    /\ new_ids["telemetry.machineId"] # new_ids["telemetry.devDeviceId"]

\* C17: a run in which a secondary mutator failed returns to the caller a
\* result other than the True of a run in which every mutator succeeded.
C17_SecondaryFailureInResult ==
    (pc = "Done" /\ \E i \in 2..Len(calls) : ~calls[i].ret) => result # "True"

\* the messages of a report that names each secondary mutator as skipped
SkippedReports ==
    {"update_sqlite_db skipped: canonical failure",
     "update_machine_id_file skipped: canonical failure",
     "update_system_ids skipped: canonical failure"}

\* C18: when update_current_file failed, the finished run has reported each
\* of the three secondary mutators as skipped because of the canonical
\* failure.
C18_CanonicalFailureReportsSkips ==
    (pc = "Done" /\ CanonicalFailed) => SkippedReports \subseteq log

\* C19: when get_config returned None or the configuration lacks the
\* section of the current platform, the run has ended with a configuration
\* error and without the process check, without any prompt, backup,
\* identifier generation, mutator call or write.
C19_ConfigFailureEndsRunFirst ==
    config \in {"none", "nosection"} =>
        /\ pc = "ConfigError"
        /\ procQuery = NotQueried
        /\ cursor_running = "(unset)"
        /\ continue_anyway = NoInput
        /\ confirm = NoInput
        /\ backups = EmptyDict
        /\ disk = EmptyDict
        /\ new_ids = EmptyDict
        /\ calls = <<>>
        /\ written = {}
        /\ StoresAsBefore

C19_Witness ==
    /\ config = "nosection"
    /\ platform = "linux"
    /\ pc = "ConfigError"
    /\ storage.st = "ok"

\* the 36-character 8-4-4-4-12 format: hyphens at 9, 14, 19 and 24,
\* hexadecimal digits elsewhere
IsToken(t) ==
    /\ Len(t) = 36
    /\ \A i \in 1..Len(t) :
          IF i \in {9, 14, 19, 24}
            THEN t[i] = "-"
            ELSE \E d \in 1..Len(HexDigits) : t[i] = HexDigits[d]

Generated == pc = "Generated"

\* C20 (as stated): every set generate_new_ids returns has the five names,
\* each value in the 36-character 8-4-4-4-12 format, and its five values
\* are pairwise distinct.
C20_FiveDistinctTokens ==
    Generated =>
        /\ DOMAIN new_ids = IdKeys
        /\ \A k \in IdKeys : IsToken(new_ids[k])
        /\ \A k1, k2 \in IdKeys : k1 # k2 => new_ids[k1] # new_ids[k2]

\* C20 (amended): every set generate_new_ids returns has the five names and
\* each value is in the 36-character 8-4-4-4-12 format (a version-4 UUID in
\* lower-case hexadecimal); the values are independent random draws.
C20_FiveTokens ==
    Generated =>
        /\ DOMAIN new_ids = IdKeys
        /\ \A k \in IdKeys :
              /\ IsToken(new_ids[k])
              /\ new_ids[k][15] = "4"
              /\ new_ids[k][20] \in {"8", "9", "a", "b"}

C20_Witness ==
    /\ Generated
    /\ new_ids["telemetry.devDeviceId"]
         = <<"f","f","f","f","f","f","f","f","-","f","f","f","f","-",
             "4","f","f","f","-","b","f","f","f","-",
             "f","f","f","f","f","f","f","f","f","f","f","f">>
    /\ new_ids["telemetry.sqmId"] # new_ids["telemetry.devDeviceId"]

\* the tokens the backends held when the run started
HeldBefore ==
    {pre.storage.doc[k] : k \in IdKeys \cap DOMAIN pre.storage.doc}
    \cup {pre.sqlite.rows[k] : k \in IdKeys \cap DOMAIN pre.sqlite.rows}
    \cup (IF pre.marker.exists THEN {pre.marker.content} ELSE {})
    \cup {pre.registry[k] : k \in DOMAIN pre.registry}

\* C21 (as stated): no token of a newly generated set equals a token that
\* the backends held before the run.
C21_NewSetNeverReusesHeldToken ==
    \A k \in DOMAIN new_ids : new_ids[k] \notin HeldBefore

\* C21 (amended): a generated set is one of the generator's random draws,
\* whatever the backends held before the run: generate_new_ids reads no
\* store and compares with no earlier value, so a token equal to one held
\* before is not excluded.
C21_NewSetIsAnUncheckedDraw ==
    new_ids # EmptyDict => new_ids \in UuidDraws

C21_Witness ==
    /\ new_ids # EmptyDict
    /\ pre.storage.st = "ok"
    /\ "telemetry.devDeviceId" \in DOMAIN pre.storage.doc
    /\ new_ids["telemetry.devDeviceId"] = pre.storage.doc["telemetry.devDeviceId"]
    /\ new_ids["telemetry.sqmId"] \notin HeldBefore

\* C22: after update_sqlite_db returned True, state.vscdb has the table
\* ItemTable, the five identifier rows hold the raw tokens of the new set,
\* every other row the table had before the run is there unchanged, and
\* there is no further row.
C22_SqliteApplyUpsertsFiveRows ==
    (Len(calls) >= 2 /\ calls[2].ret) =>
        /\ sqlite.exists /\ sqlite.hasTable
        /\ DOMAIN sqlite.rows = DOMAIN pre.sqlite.rows \cup IdKeys
        /\ \A k \in IdKeys : sqlite.rows[k] = new_ids[k]
        /\ \A k \in DOMAIN pre.sqlite.rows \ IdKeys :
              sqlite.rows[k] = pre.sqlite.rows[k]

C22_Witness ==
    /\ Len(calls) >= 2 /\ calls[2].ret
    /\ pre.sqlite.rows = TableRows
    /\ sqlite.rows["other.row"] = "o"
    /\ sqlite.rows["telemetry.devDeviceId"] = "n1"
    /\ sqlite.rows["telemetry.sqmId"] = "n4"

\* C23: after update_machine_id_file returned True the marker file holds
\* the device id of the new set and nothing else; if the marker file
\* existed before the run, a backup copy with its prior content exists;
\* and whatever update_machine_id_file returned, the run goes on to
\* update_system_ids.
C23_MarkerApplyBacksUpThenWrites ==
    Len(calls) >= 3 =>
        /\ calls[3].ret =>
              /\ marker.exists
              /\ marker.content = new_ids["telemetry.devDeviceId"]
              /\ pre.marker.exists =>
                    /\ MachineIdRestoreBak \in DOMAIN backups
                    /\ backups[MachineIdRestoreBak] = pre.marker.content
        /\ pc = "UpdateSystem" \/ (pc = "Done" /\ Len(calls) = Len(MutatorOrder))

\* what a caller can tell from the value a mutator returned
Outcome(ret) == IF ret THEN "Applied" ELSE "Failed"

SystemIdsMessages ==
    {"update_windows_system_ids_failed", "windows_machine_guid_updated",
     "windows_machine_id_updated", "sqm_client_key_not_found",
     "permission_denied", "update_windows_machine_guid_failed",
     "update_windows_machine_id_failed", "macos_platform_uuid_updated",
     "failed_to_execute_plutil_command"}

OtherPlatform == platform \notin {"win32", "darwin"}

SystemIdsCalled == Len(calls) = Len(MutatorOrder)

C25_PathResolutionNeverFails ==
    config = "ok" =>
        /\ pc # "ConfigError"
        /\ \A arch_release \in BOOLEAN :
              ReadSection(platform, arch_release)
                 = DefaultSection(platform, arch_release)

\* C26: nothing is retried: in a run no mutator is invoked twice, also not
\* after it failed; a failed call is followed by the next mutator or by the
\* end of the run.
C26_NoMutatorInvokedTwice ==
    /\ \A i, j \in DOMAIN calls : calls[i].fn = calls[j].fn => i = j
    /\ \A i \in DOMAIN calls :
          ~calls[i].ret =>
              IF i < Len(calls) THEN calls[i + 1].fn # calls[i].fn
              ELSE pc \in {"Done", "UpdateMachineId", "UpdateSystem"}

C26_Witness ==
    /\ pc = "Done"
    /\ Len(calls) = Len(MutatorOrder)
    /\ ~calls[2].ret
    /\ ~calls[3].ret
    /\ "sqlite_update_failed" \in log

\* a restore copy of storage.json on disk holding what the file held when
\* the run started
RestoreCopyOfPreRun ==
    /\ StorageRestoreBak \in DOMAIN backups
    /\ backups[StorageRestoreBak] = pre.storage
    /\ \E path \in DOMAIN disk :
          path[1] = StorageRestoreBak /\ disk[path] = pre.storage

\* C27: storage.json is opened for writing only after its restore copy
\* was made: when the read, the parse or the copy failed the file is as it
\* was before the run, and whenever the file differs from what it was
\* before the run, or was opened for writing, a restore copy holding the
\* pre-run content exists.
C27_RestoreCopyBeforeWrite ==
    /\ (storage # pre.storage \/ "JsonStore" \in written) => RestoreCopyOfPreRun
    /\ (calls # <<>> /\ StorageRestoreBak \notin DOMAIN backups) =>
          /\ storage = pre.storage
          /\ ~calls[1].ret

C27_Witness ==
    /\ CanonicalFailed
    /\ pre.storage.st = "ok"
    /\ storage.st = "corrupt"
    /\ RestoreCopyOfPreRun

\* no prompt that was shown was answered with anything but y or Y
PromptsPassed ==
    /\ continue_anyway = NoInput \/ ~Declined(continue_anyway)
    /\ confirm = NoInput \/ ~Declined(confirm)

Returned == pc \in {"Done", "Aborted"}

\* C28: reset_machine_ids returns True if and only if every prompt shown
\* was passed and update_current_file succeeded, whatever the three
\* secondary mutators returned; otherwise it returns False.
C28_TrueIffPromptsPassedAndCanonicalApplied ==
    Returned =>
        /\ result \in {"True", "False"}
        /\ result = "True" <=> (PromptsPassed /\ CanonicalApplied)

C28_Witness ==
    /\ Returned
    /\ result = "True"
    /\ continue_anyway # NoInput
    /\ ~calls[2].ret
    /\ ~calls[3].ret

\* C29: run() returns False only when the configuration could not be
\* loaded or the constructor raised; once reset_machine_ids has returned,
\* with True or with False, run() returns True.
C29_RunReturnsTrueAfterReset ==
    /\ run_result = "False" => pc = "ConfigError"
    /\ (Returned /\ run_result # "(running)") => run_result = "True"

\* none of storage.json, state.vscdb and the machineId file existed when
\* the run started
NoFilesBefore ==
    pre.storage.st = "absent" /\ ~pre.sqlite.exists /\ ~pre.marker.exists

\* C30: when none of the three files exists, the run gets no further than
\* the check of the files: it ends there with False, no backup artifact is
\* written, no identifier set is generated, the confirm prompt is not
\* shown, no mutator is called and none of the files is created.
C30_NoFilesEndsRunBeforeBackup ==
    NoFilesBefore =>
        /\ pc \in {"Start", "ConfigError", "CheckRunning", "PromptContinue",
                   "CheckFiles", "Aborted", "Done"}
        /\ pc = "Aborted" => Asked(continue_anyway)
        /\ pc = "Done" => result = "False" /\ "files_not_found" \in log
        /\ backups = EmptyDict
        /\ disk = EmptyDict
        /\ new_ids = EmptyDict
        /\ confirm = NoInput
        /\ calls = <<>>
        /\ written = {}
        /\ NoCursorFiles
        /\ StoresAsBefore

C30_Witness ==
    /\ NoFilesBefore
    /\ pc = "Done"
    /\ "files_not_found" \in log
    /\ Asked(continue_anyway)
    /\ run_result = "True"

SqliteApplyCalled == Len(calls) >= 2

\* C31: the embedded-store apply is all-or-nothing for the five identifier
\* rows: when update_sqlite_db returned False the rows of ItemTable are
\* those of before the run, and when it returned True all five identifier
\* rows hold the values of the new set.
C31_SqliteApplyAllOrNothing ==
    SqliteApplyCalled =>
        IF calls[2].ret
          THEN \A k \in IdKeys :
                  k \in DOMAIN sqlite.rows /\ sqlite.rows[k] = new_ids[k]
          ELSE sqlite.rows = pre.sqlite.rows

C31_Witness ==
    /\ SqliteApplyCalled
    /\ ~calls[2].ret
    /\ "sqlite_update_failed" \in log
    /\ ~pre.sqlite.hasTable
    /\ sqlite.hasTable
    /\ sqlite.rows = EmptyDict

\* the value of this run's new set for identifier k, if a set was generated
NewValue(k) == IF k \in DOMAIN new_ids THEN {new_ids[k]} ELSE {}

\* the values a dictionary-like store may hold for its key k at the end of
\* a run: what it held before the run, or the new value of identifier id
OldOrNew(old, k, id) ==
    (IF k \in DOMAIN old THEN {old[k]} ELSE {}) \cup NewValue(id)

\* C32: at the end of a run every identifier stored in a backend holds its
\* pre-run value or the value of this run's new set: storage.json is
\* readable if it was and its five keys, the ItemTable rows, the content of
\* the machineId file and the registry values are each old or new; and
\* after a run that returned True storage.json holds the new value for all
\* five identifiers.
C32_EveryIdentifierOldOrNew ==
    Returned =>
        /\ storage.st = pre.storage.st
        /\ \A k \in IdKeys \cap DOMAIN storage.doc :
              storage.doc[k] \in OldOrNew(pre.storage.doc, k, k)
        /\ \A k \in IdKeys \cap DOMAIN sqlite.rows :
              sqlite.rows[k] \in OldOrNew(pre.sqlite.rows, k, k)
        /\ marker.exists =>
              marker.content \in
                 (IF pre.marker.exists THEN {pre.marker.content} ELSE {})
                 \cup NewValue("telemetry.devDeviceId")
        /\ "MachineGuid" \in DOMAIN registry =>
              registry["MachineGuid"] \in
                 OldOrNew(pre.registry, "MachineGuid", "telemetry.devDeviceId")
        /\ "SQMClient.MachineId" \in DOMAIN registry =>
              registry["SQMClient.MachineId"] \in
                 OldOrNew(pre.registry, "SQMClient.MachineId", "telemetry.sqmId")
        /\ "platform.UUID" \in DOMAIN registry =>
              registry["platform.UUID"] \in
                 OldOrNew(pre.registry, "platform.UUID", "telemetry.macMachineId")
        /\ result = "True" =>
              \A k \in IdKeys :
                 k \in DOMAIN storage.doc /\ storage.doc[k] = new_ids[k]

\* the order of the steps in reset_machine_ids
StepOrder ==
    <<"Start", "CheckRunning", "PromptContinue", "CheckFiles", "Backup",
      "Generate", "Confirm", "UpdateStorage", "UpdateSqlite",
      "UpdateMachineId", "UpdateSystem", "Aborted", "Done", "ConfigError">>

StepRank(at) == CHOOSE i \in 1..Len(StepOrder) : StepOrder[i] = at

\* C33: with every prompt shown answered, a run of reset_machine_ids ends
\* Done or Aborted with a boolean result, whatever errors its steps met;
\* and every step of it leads to a later step, none being entered again.
C33_RunTerminates ==
    /\ (pc = "CheckRunning") ~> (Returned /\ result \in {"True", "False"})
    /\ [][ResetStep => StepRank(pc') > StepRank(pc)]_vars

C33_Witness ==
    /\ Returned
    /\ result = "True"
    /\ faults = MaxFaults
    /\ Asked(continue_anyway)
    /\ "sqlite_update_failed" \in log
    /\ "machine_id_update_failed" \in log

====
